---- MODULE Spec2Model ----
(***************************************************************************)
(* Model of rest_assured/testcases.py: the REST API test-case base class   *)
(* and its list / detail / create / destroy / update mixins.               *)
(*                                                                         *)
(* One behaviour is the life of one test-case instance: the class          *)
(* attributes are fixed at construction, setUp builds the fixtures, then   *)
(* one test method runs against a server whose response and database       *)
(* effect are unconstrained.  Every call the instance makes on the client, *)
(* the factories, the ORM and stdout is appended to `calls`, in order.     *)
(***************************************************************************)
EXTENDS Integers, Sequences, FiniteSets, TLC

VARIABLES
    attrs,      \* the class attributes of the test case (read only)
    phase,      \* "new" (constructed), "ready" (setUp done), "done" (test method ended)
    user,       \* self.user
    object,     \* self.object
    client,     \* self.client: its credentials header and session
    db,         \* the rows of the main object's model
    calls,      \* every call on the client, the factories, the ORM and stdout, in order
    result      \* the test method that ran: its arguments, how it ended, what it returned

vars == <<attrs, phase, user, object, client, db, calls, result>>

----------------------------------------------------------------------------
(* Bounds *)

\* ids 1..MaxId may appear in the database and in response bodies
MaxId == 2
\* distinct extra keyword-argument sets a caller passes (the empty one included)
MaxKwargs == 2

----------------------------------------------------------------------------
(* Python values.  A value carries its type, so that 1 and u'1' differ.    *)

Digits == <<"1", "2", "3", "4">>
Ids == {Digits[i] : i \in 1..MaxId}

IntV(s) == [t |-> "int", s |-> s]
StrV(s) == [t |-> "str", s |-> s]
NoneV == [t |-> "none", s |-> "None"]

\* unicode(x): the text form of x
unicode(v) == [t |-> "str", s |-> v.s]

\* dictionaries: None, or a mapping from keys to values
EmptyMap == [k \in {} |-> NoneV]
NoneDict == [isNone |-> TRUE, d |-> EmptyMap]
Dict(d) == [isNone |-> FALSE, d |-> d]
One(k, v) == [x \in {k} |-> v]
Two(k1, v1, k2, v2) == [x \in {k1, k2} |-> IF x = k1 THEN v1 ELSE v2]

\* Python truthiness of a dictionary-or-None
Truthy(x) == ~x.isNone /\ DOMAIN x.d # {}

\* dict.get(key): None when the key is missing
DictGet(d, k) == IF k \in DOMAIN d THEN d[k] ELSE NoneV

KwargsOrder == <<EmptyMap, One("format", StrV("json")), One("follow", StrV("True")),
                 Two("format", StrV("json"), "follow", StrV("True"))>>
Kwargs == {KwargsOrder[i] : i \in 1..MaxKwargs}

----------------------------------------------------------------------------
(* rest_framework.status *)

HTTP_200_OK == 200
HTTP_201_CREATED == 201
HTTP_204_NO_CONTENT == 204
HTTP_400_BAD_REQUEST == 400

ListV == [t |-> "list", s |-> "[]"]

----------------------------------------------------------------------------
(* Model instances: rows of the main object's model *)

Row(id, name, uuid) ==
    [id |-> IntV(id), name |-> StrV(name),
     owner |-> [pk |-> IntV("7"), uuid |-> uuid],   \* a foreign key
     tags |-> {"3"}]                                  \* a many-to-many relation: related pks

NoObject == [isNone |-> TRUE]
Obj(row) == [isNone |-> FALSE, row |-> row]

\* getattr(obj, name) for the plain attributes; pk is the id
GetAttr(row, name) ==
    CASE name = "pk" -> row.id
      [] name = "id" -> row.id
      [] name = "name" -> row.name

\* the factories the test classes use: what create() builds
PlainFactory == [name |-> "a", uuid |-> NoneV]
UuidFactory == [name |-> "a", uuid |-> StrV("u7")]

NoUserFactory == [set |-> FALSE, raw_password |-> ""]
UserFactory == [set |-> TRUE, raw_password |-> "bellbottoms"]
NoUser == [isNone |-> TRUE]
TheUser == [isNone |-> FALSE, username |-> "ydaniv", token_key |-> "9944b0"]

----------------------------------------------------------------------------
(* BaseRESTAPITestCase *)

\* the attributes BaseRESTAPITestCase declares, at their defaults
BaseDefaults ==
    [base_name |-> "thing", factory_class |-> PlainFactory,
     LIST_SUFFIX |-> "-list", DETAIL_SUFFIX |-> "-detail",
     lookup_field |-> "pk", user_factory |-> NoUserFactory, use_token_auth |-> FALSE]

get_factory_class(self) == self.factory_class

\* factory.create(): the new instance, saved to the database
FactoryCreate(factory) == Row("1", factory.name, factory.uuid)

get_object(factory) == FactoryCreate(factory)

get_credentials(self, u) ==
    [username |-> u.username, password |-> self.user_factory.raw_password]

\* the calls setUp makes for authentication, in order
SetUpAuthCalls(self) ==
    IF self.user_factory.set
    THEN <<[op |-> "user_factory.create"]>> \o
         (IF self.use_token_auth
          THEN <<[op |-> "Token.objects.get", user |-> TheUser.username],
                 [op |-> "client.credentials",
                  HTTP_AUTHORIZATION |-> "Token " \o TheUser.token_key]>>
          ELSE <<[op |-> "client.login", credentials |-> get_credentials(self, TheUser)]>>)
    ELSE <<>>

\* mutant: use_token_auth is ignored, the user is always logged in
SetUpClient_always_login(self, c) ==
    IF self.user_factory.set
    THEN [c EXCEPT !.session_user = get_credentials(self, TheUser).username]
    ELSE c

\* the client after setUp's authentication step
SetUpClient(self, c) ==
    IF self.user_factory.set
    THEN IF self.use_token_auth
         THEN [c EXCEPT !.HTTP_AUTHORIZATION = "Token " \o TheUser.token_key]
         ELSE [c EXCEPT !.session_user = get_credentials(self, TheUser).username]
    ELSE c

setUp ==
    /\ phase = "new"
    /\ user' = IF attrs.user_factory.set THEN TheUser ELSE user
    /\ client' = SetUpClient(attrs, client)
    /\ object' = Obj(get_object(get_factory_class(attrs)))
    /\ db' = db \cup {get_object(get_factory_class(attrs))}
    /\ calls' = calls \o SetUpAuthCalls(attrs) \o <<[op |-> "factory.create"]>>
    /\ phase' = "ready"
    /\ UNCHANGED <<attrs, result>>

----------------------------------------------------------------------------
(* The framework the mixins call: routing, the test client, the ORM.       *)

\* reverse(view_name, args): the path holds the text form of the argument
reverse(view_name, arg) == [view |-> view_name, arg |-> unicode(arg).s]
NoArg == StrV("")

\* the status codes a view may answer with: the ones the mixins name, and 404
Statuses == {HTTP_200_OK, HTTP_201_CREATED, HTTP_204_NO_CONTENT,
             HTTP_400_BAD_REQUEST, 404}

\* the bodies a view may answer with
ResponseData ==
    {NoneDict, Dict(EmptyMap), Dict(One("results", ListV)), Dict(One("name", StrV("a")))}
    \cup {Dict(One("id", IntV(i))) : i \in Ids}
    \cup {Dict(One("id", StrV(i))) : i \in Ids}
    \cup {Dict(Two("id", IntV(i), "name", StrV("a"))) : i \in Ids}

Responses == [status_code : Statuses, data : ResponseData]

\* what the view may do to the table while it serves the request: nothing,
\* delete the row, rename it, or insert a row (with the name the factory gives)
ServerEffects(rows, row) ==
    {rows, rows \ {row}, (rows \ {row}) \cup {[row EXCEPT !.name = StrV("b")]}}
    \cup {rows \cup {Row(i, "a", NoneV)} : i \in Ids \ {row.id.s}}

\* Model.objects.get(**{field: value}): the lookup value is coerced to the
\* field's type, so 1 and u'1' find the same row; None finds none
ObjectsGet(rows, field, value) ==
    LET found == {r \in rows : value.t \in {"int", "str"} /\ GetAttr(r, field).s = value.s}
    IN  IF found = {} THEN [exc |-> "ObjectDoesNotExist"]
        ELSE IF Cardinality(found) > 1 THEN [exc |-> "MultipleObjectsReturned"]
        ELSE [exc |-> "", row |-> CHOOSE r \in found : TRUE]

\* how a test method ends
Passed(evs, ret) == [calls |-> evs, outcome |-> "pass", exc |-> "", returned |-> ret]
\* self.assert*() failed: the test framework's AssertionError
Failed(evs) == [calls |-> evs, outcome |-> "fail", exc |-> "AssertionError", returned |-> <<>>]
\* any other exception left the method
Raised(evs, exc) == [calls |-> evs, outcome |-> "error", exc |-> exc, returned |-> <<>>]

\* print '\n%s' % response.data
Stdout(response) == [op |-> "stdout.write", text |-> response.data]

----------------------------------------------------------------------------
(* ListAPITestCaseMixin *)

\* mutant: the assertIn('results', ...) is dropped
test_list_no_results_check(self, kwargs, response) ==
    LET listview == reverse(self.base_name \o self.LIST_SUFFIX, NoArg)
        get == <<[op |-> "client.get", path |-> listview, kwargs |-> kwargs,
                  response |-> response]>>
        evs == IF response.status_code # HTTP_200_OK
               THEN get \o <<Stdout(response)>> ELSE get
    IN  IF response.status_code # HTTP_200_OK THEN Failed(evs)
        ELSE Passed(evs, <<response>>)

test_list(self, kwargs, response) ==
    LET listview == reverse(self.base_name \o self.LIST_SUFFIX, NoArg)
        get == <<[op |-> "client.get", path |-> listview, kwargs |-> kwargs,
                  response |-> response]>>
        evs == IF response.status_code # HTTP_200_OK
               THEN get \o <<Stdout(response)>> ELSE get
    IN  IF response.status_code # HTTP_200_OK THEN Failed(evs)
        ELSE IF response.data.isNone THEN Raised(evs, "TypeError")
        ELSE IF "results" \notin DOMAIN response.data.d THEN Failed(evs)
        ELSE Passed(evs, <<response>>)

----------------------------------------------------------------------------
(* DetailAPITestCaseMixin *)

\* an entry of attributes_to_check: a name, or a (name, callable) pair
Name(n) == [pair |-> FALSE, name |-> n]
Pair(n, f) == [pair |-> TRUE, name |-> n, fn |-> f]

\* the callables the test classes use
Apply(fn, row) ==
    CASE fn = "lambda obj: obj.id" -> row.id
      [] fn = "lambda obj: obj.name" -> row.name

\* mutant: the attribute is compared as it is, not in its text form
ExpectedValue_raw(entry, row) ==
    IF entry.pair THEN Apply(entry.fn, row) ELSE GetAttr(row, entry.name)

\* the value an entry expects in the response data
ExpectedValue(entry, row) ==
    IF entry.pair THEN Apply(entry.fn, row) ELSE unicode(GetAttr(row, entry.name))

\* "" when every entry matches, else the exception that ends the loop
RECURSIVE _check_attributes(_, _, _)
_check_attributes(entries, row, data) ==
    IF entries = <<>> THEN ""
    ELSE LET attr == Head(entries)
             value == ExpectedValue(attr, row)
         IN  IF data.isNone THEN "TypeError"
             ELSE IF attr.name \notin DOMAIN data.d THEN "KeyError"
             ELSE IF value # data.d[attr.name] THEN "AssertionError"
             ELSE _check_attributes(Tail(entries), row, data)

test_detail(self, obj, kwargs, response) ==
    LET object_id == GetAttr(obj, self.lookup_field)
        detailview == reverse(self.base_name \o self.DETAIL_SUFFIX, unicode(object_id))
        get == <<[op |-> "client.get", path |-> detailview, kwargs |-> kwargs,
                  response |-> response]>>
        evs == IF response.status_code # HTTP_200_OK
               THEN get \o <<Stdout(response)>> ELSE get
        checked == _check_attributes(self.attributes_to_check, obj, response.data)
    IN  IF response.status_code # HTTP_200_OK THEN Failed(evs)
        ELSE IF checked = "AssertionError" THEN Failed(evs)
        ELSE IF checked # "" THEN Raised(evs, checked)
        ELSE Passed(evs, <<response>>)

----------------------------------------------------------------------------
(* CreateAPITestCaseMixin *)

get_create_data(self) == self.create_data

_get_create_name(self) ==
    IF "create_name" \in DOMAIN self THEN self.create_name
    ELSE self.base_name \o self.LIST_SUFFIX

\* mutant: the data is posted as it is
CreateBody_as_given(data) == data

\* the request body of the POST: data or {}
CreateBody(data) == IF Truthy(data) THEN data ELSE Dict(EmptyMap)

\* mutant: the lookup is wrapped in an assertion
test_create_asserts_found(self, data0, kwargs, response, rows) ==
    LET data == IF data0.isNone THEN get_create_data(self) ELSE data0
        create_view == reverse(_get_create_name(self), NoArg)
        post == <<[op |-> "client.post", path |-> create_view, data |-> CreateBody(data),
                   kwargs |-> kwargs, response |-> response]>>
        evs == IF response.status_code # HTTP_201_CREATED
               THEN post \o <<Stdout(response)>> ELSE post
        id == DictGet(response.data.d, "id")
        query == <<[op |-> "objects.get", field |-> "id", value |-> id]>>
        created == ObjectsGet(rows, "id", id)
    IN  IF response.status_code # HTTP_201_CREATED THEN Failed(evs)
        ELSE IF response.data.isNone THEN Failed(evs)
        ELSE IF created.exc # "" THEN Failed(evs \o query)
        ELSE Passed(evs \o query, <<response, created.row>>)

test_create(self, data0, kwargs, response, rows) ==
    LET data == IF data0.isNone THEN get_create_data(self) ELSE data0
        create_view == reverse(_get_create_name(self), NoArg)
        post == <<[op |-> "client.post", path |-> create_view, data |-> CreateBody(data),
                   kwargs |-> kwargs, response |-> response]>>
        evs == IF response.status_code # HTTP_201_CREATED
               THEN post \o <<Stdout(response)>> ELSE post
        id == DictGet(response.data.d, "id")
        query == <<[op |-> "objects.get", field |-> "id", value |-> id]>>
        created == ObjectsGet(rows, "id", id)
    IN  IF response.status_code # HTTP_201_CREATED THEN Failed(evs)
        ELSE IF response.data.isNone THEN Raised(evs, "AttributeError")
        ELSE IF created.exc # "" THEN Raised(evs \o query, created.exc)
        ELSE Passed(evs \o query, <<response, created.row>>)

----------------------------------------------------------------------------
(* DestroyAPITestCaseMixin *)

_get_destroy_name(self) ==
    IF "destroy_name" \in DOMAIN self THEN self.destroy_name
    ELSE self.base_name \o self.DETAIL_SUFFIX

\* mutant: the row is not looked up after the request
test_destroy_no_lookup(self, obj, kwargs, response, rows) ==
    LET object_id == GetAttr(obj, self.lookup_field)
        destroyview == reverse(_get_destroy_name(self), object_id)
        evs == <<[op |-> "client.delete", path |-> destroyview, kwargs |-> kwargs,
                  response |-> response]>>
    IN  IF response.status_code # HTTP_204_NO_CONTENT THEN Failed(evs)
        ELSE Passed(evs, <<response>>)

test_destroy(self, obj, kwargs, response, rows) ==
    LET object_id == GetAttr(obj, self.lookup_field)
        destroyview == reverse(_get_destroy_name(self), object_id)
        evs == <<[op |-> "client.delete", path |-> destroyview, kwargs |-> kwargs,
                  response |-> response]>>
        query == <<[op |-> "objects.get", field |-> self.lookup_field, value |-> object_id]>>
        got == ObjectsGet(rows, self.lookup_field, object_id)
    IN  IF response.status_code # HTTP_204_NO_CONTENT THEN Failed(evs)
        \* assertRaises(ObjectDoesNotExist, ...): passes on that exception,
        \* fails when none is raised, lets any other exception through
        ELSE IF got.exc = "ObjectDoesNotExist" THEN Passed(evs \o query, <<response>>)
        ELSE IF got.exc = "" THEN Failed(evs \o query)
        ELSE Raised(evs \o query, got.exc)

----------------------------------------------------------------------------
(* UpdateAPITestCaseMixin *)

get_update_data(self) == self.update_data

\* getattr(self, 'update_results', data)
get_update_results(self, data) ==
    IF "update_results" \in DOMAIN self THEN self.update_results ELSE data

_get_update_name(self) ==
    IF "update_name" \in DOMAIN self THEN self.update_name
    ELSE self.base_name \o self.DETAIL_SUFFIX

\* a many-to-many value in the request data: a list of pks
Pks(S) == [t |-> "list", items |-> S]

\* hasattr(obj, '%s_id' % key): the model's foreign keys
IsForeignKey(key) == key = "owner"
\* isinstance(getattr(obj, key), Manager): the model's many-to-many relations
IsManager(key) == key = "tags"

\* the orders in which iteritems() may yield the keys of a dictionary
KeyOrders(d) ==
    {o \in [1..Cardinality(DOMAIN d) -> DOMAIN d] :
        \A i, j \in DOMAIN o : i # j => o[i] # o[j]}

\* "" when the loop ends (or returns True), else the exception that ends it
RECURSIVE CheckDbLoop(_, _, _, _)
CheckDbLoop(keys, row, data, results) ==
    IF keys = <<>> THEN ""
    ELSE LET key == Head(keys)
             value == data[key]
             expected == IF key \in DOMAIN results THEN results[key] ELSE value
         IN  IF IsForeignKey(key)
             THEN LET related == row[key]
                      attribute == IF related.uuid # NoneV THEN unicode(related.uuid)
                                   ELSE unicode(related.pk)
                  IN  IF attribute # expected THEN "AssertionError"
                      ELSE CheckDbLoop(Tail(keys), row, data, results)
             ELSE IF IsManager(key)
             THEN IF \A pk \in value.items : pk.t = "str" /\ pk.s \in row[key]
                  THEN "" ELSE "AssertionError"
             ELSE IF row[key] # expected THEN "AssertionError"
                  ELSE CheckDbLoop(Tail(keys), row, data, results)

_update_check_db(row, data, results0, order) ==
    LET results == IF results0.isNone THEN EmptyMap ELSE results0.d
    IN  IF data.isNone THEN "AttributeError"
        ELSE CheckDbLoop(order, row, data.d, results)

\* the keyword arguments test_update hands to the client's patch() / put()
UpdateClientKwargs(kwargs) == EmptyMap

\* use_patch0 is "None", "True" or "False"
test_update(self, obj, data0, results0, use_patch0, kwargs, response, rows, order) ==
    LET object_id == GetAttr(obj, self.lookup_field)
        update_view == reverse(_get_update_name(self), object_id)
        data == IF data0.isNone THEN get_update_data(self) ELSE data0
        results == IF results0.isNone THEN get_update_results(self, data) ELSE results0
        use_patch == IF use_patch0 = "None" THEN self.use_patch ELSE use_patch0 = "True"
        send == <<[op |-> IF use_patch THEN "client.patch" ELSE "client.put",
                   path |-> update_view, data |-> data,
                   kwargs |-> UpdateClientKwargs(kwargs), response |-> response]>>
        evs == IF response.status_code = HTTP_400_BAD_REQUEST
               THEN send \o <<Stdout(response)>> ELSE send
        query == <<[op |-> "objects.get", field |-> self.lookup_field, value |-> object_id]>>
        updated == ObjectsGet(rows, self.lookup_field, object_id)
        check == <<[op |-> "_update_check_db", data |-> data, results |-> results]>>
        checked == _update_check_db(updated.row, data, results, order)
    IN  IF response.status_code # HTTP_200_OK THEN Failed(evs)
        ELSE IF updated.exc # "" THEN Raised(evs \o query, updated.exc)
        ELSE IF checked = "AssertionError" THEN Failed(evs \o query \o check)
        ELSE IF checked # "" THEN Raised(evs \o query \o check, checked)
        ELSE Passed(evs \o query \o check, <<response, updated.row>>)

----------------------------------------------------------------------------
(* The test classes: BaseRESTAPITestCase with mixins.  A class holds the   *)
(* attributes of the mixins it inherits, `methods` names its test methods. *)

ListAttrs == [methods |-> {"test_list"}]
DetailDefaults == [methods |-> {"test_detail"}, attributes_to_check |-> <<Name("id")>>]
CreateDefaults == [methods |-> {"test_create"}, create_data |-> NoneDict]
DestroyDefaults == [methods |-> {"test_destroy"}]
UpdateDefaults == [methods |-> {"test_update"}, use_patch |-> TRUE,
                   update_data |-> NoneDict, update_results |-> NoneDict]

\* class C(...): name = value
With(cls, name, values) == {(name :> v) @@ cls : v \in values}
\* a class that may or may not declare the attribute
Maybe(cls, name, value) == {cls, (name :> value) @@ cls}

BaseClasses ==
    {[BaseDefaults EXCEPT !.lookup_field = l, !.user_factory = u, !.use_token_auth = t] :
        l \in {"pk", "name"}, u \in {NoUserFactory, UserFactory}, t \in BOOLEAN}
PlainBases ==
    {[BaseDefaults EXCEPT !.lookup_field = l] : l \in {"pk", "name"}}

ListClasses == {ListAttrs @@ b : b \in BaseClasses}

AttributeLists ==
    {<<Name("id")>>, <<Name("name"), Pair("id", "lambda obj: obj.id")>>,
     <<Pair("name", "lambda obj: obj.name"), Name("id")>>}
DetailClasses ==
    UNION {With(DetailDefaults @@ b, "attributes_to_check", AttributeLists) : b \in PlainBases}

CreateDicts == {NoneDict, Dict(EmptyMap), Dict(One("name", StrV("n")))}
CreateClasses ==
    UNION {Maybe(c, "create_name", "thing-create") :
             c \in With(CreateDefaults @@ BaseDefaults, "create_data", CreateDicts)}

DestroyClasses ==
    UNION {Maybe(DestroyDefaults @@ b, "destroy_name", "thing-destroy") : b \in PlainBases}

UpdateDicts ==
    {Dict(One("name", StrV("b"))), Dict(One("owner", StrV("7"))),
     Dict(Two("name", StrV("b"), "tags", Pks({StrV("3")})))}
ResultDicts == {Dict(One("name", StrV("b"))), Dict(One("owner", StrV("u7")))}
UpdateBases ==
    {[b EXCEPT !.factory_class = f] : b \in PlainBases, f \in {PlainFactory, UuidFactory}}
UpdateClasses ==
    UNION {Maybe(c3, "update_name", "thing-update") :
             c3 \in UNION {With(c2, "update_results", {NoneDict} \cup ResultDicts) :
               c2 \in UNION {With(c1, "update_data", {NoneDict} \cup UpdateDicts) :
                 c1 \in UNION {With(UpdateDefaults @@ b, "use_patch", BOOLEAN) :
                   b \in UpdateBases}}}}

\* ReadWriteRESTAPITestCaseMixin: every mixin, every attribute at its default
ReadWriteAttrs ==
    [methods |-> {"test_list", "test_detail", "test_create", "test_update", "test_destroy"}]
    @@ DetailDefaults @@ CreateDefaults @@ UpdateDefaults
ReadWriteClasses == {ReadWriteAttrs @@ b : b \in BaseClasses}

TestClasses ==
    ListClasses \cup DetailClasses \cup CreateClasses \cup DestroyClasses
    \cup UpdateClasses \cup ReadWriteClasses

----------------------------------------------------------------------------
(* The life of a test-case instance *)

NoArgs == [kwargs |-> EmptyMap]
NoResult == [method |-> "", args |-> NoArgs, outcome |-> "none", exc |-> "",
             returned |-> <<>>]

Init ==
    /\ attrs \in TestClasses
    /\ phase = "new"
    /\ user = NoUser
    /\ object = NoObject
    /\ client = [HTTP_AUTHORIZATION |-> "", session_user |-> ""]
    /\ db = {}
    /\ calls = <<>>
    /\ result = NoResult

\* the test method ran: its calls, its end, and the table the server left
Ran(method, args, r, rows) ==
    /\ calls' = calls \o r.calls
    /\ result' = [method |-> method, args |-> args, outcome |-> r.outcome, exc |-> r.exc,
                  returned |-> r.returned]
    /\ db' = rows
    /\ phase' = "done"
    /\ UNCHANGED <<attrs, user, object, client>>

Ready(method) == phase = "ready" /\ method \in attrs.methods

\* the explicit arguments callers pass to test_create / test_update
DataArgs == {NoneDict, Dict(One("name", StrV("b")))}
ResultArgs == {NoneDict, Dict(One("name", StrV("b")))}

TestList ==
    /\ Ready("test_list")
    /\ \E kwargs \in Kwargs, response \in Responses, rows \in ServerEffects(db, object.row) :
         Ran("test_list", [kwargs |-> kwargs], test_list(attrs, kwargs, response), rows)

TestDetail ==
    /\ Ready("test_detail")
    /\ \E kwargs \in Kwargs, response \in Responses, rows \in ServerEffects(db, object.row) :
         Ran("test_detail", [kwargs |-> kwargs], test_detail(attrs, object.row, kwargs, response), rows)

TestCreate ==
    /\ Ready("test_create")
    /\ \E data \in DataArgs, kwargs \in Kwargs, response \in Responses,
          rows \in ServerEffects(db, object.row) :
         Ran("test_create", [data |-> data, kwargs |-> kwargs],
             test_create(attrs, data, kwargs, response, rows), rows)

TestDestroy ==
    /\ Ready("test_destroy")
    /\ \E kwargs \in Kwargs, response \in Responses, rows \in ServerEffects(db, object.row) :
         Ran("test_destroy", [kwargs |-> kwargs],
             test_destroy(attrs, object.row, kwargs, response, rows), rows)

TestUpdate ==
    /\ Ready("test_update")
    /\ \E data \in DataArgs, results \in ResultArgs, use_patch \in {"None", "True", "False"},
          kwargs \in Kwargs, response \in Responses, rows \in ServerEffects(db, object.row) :
         LET sent == IF data.isNone THEN get_update_data(attrs) ELSE data
         IN  \E order \in (IF sent.isNone THEN {<<>>} ELSE KeyOrders(sent.d)) :
               Ran("test_update",
                   [data |-> data, results |-> results, use_patch |-> use_patch,
                    kwargs |-> kwargs],
                   test_update(attrs, object.row, data, results, use_patch, kwargs,
                               response, rows, order),
                   rows)

Next == setUp \/ TestList \/ TestDetail \/ TestCreate \/ TestDestroy \/ TestUpdate

Spec == Init /\ [][Next]_vars

----------------------------------------------------------------------------
(* Reading a finished run *)

ClientOps == {"client.get", "client.post", "client.delete", "client.patch", "client.put"}
Requests == {i \in DOMAIN calls : calls[i].op \in ClientOps}
Queries == {i \in DOMAIN calls : calls[i].op = "objects.get"}
Printed == {i \in DOMAIN calls : calls[i].op = "stdout.write"}

Done(method) == phase = "done" /\ result.method = method
\* the one request a finished test method sent, and its response
Request == calls[CHOOSE i \in Requests : TRUE]
Response == Request.response

ExpectedStatus(method) ==
    CASE method = "test_create" -> HTTP_201_CREATED
      [] method = "test_destroy" -> HTTP_204_NO_CONTENT
      [] OTHER -> HTTP_200_OK

\* the rows the main object's lookup_field value finds
Found == {r \in db : GetAttr(r, attrs.lookup_field).s = GetAttr(object.row, attrs.lookup_field).s}

----------------------------------------------------------------------------
(* C1: a test method passes only if the response status is the code it     *)
(* expects (200 for test_list, test_detail and test_update, 201 for        *)
(* test_create, 204 for test_destroy); test_list passes only if, moreover, *)
(* the response data has the key 'results'.                                *)
C1_PassOnlyOnExpectedStatus ==
    (phase = "done" /\ result.outcome = "pass") =>
        /\ Cardinality(Requests) = 1
        /\ Response.status_code = ExpectedStatus(result.method)
        /\ result.method = "test_list" =>
              (~Response.data.isNone /\ "results" \in DOMAIN Response.data.d)

C1_Witness ==
    /\ Done("test_list") /\ result.outcome = "pass"
    /\ Response.status_code = HTTP_200_OK

(* C2: in each of the five test methods, a response whose status differs   *)
(* from the expected code has its body printed before the status assertion *)
(* fails.                                                                  *)
C2_BodyPrintedOnUnexpectedStatus ==
    (phase = "done" /\ Response.status_code # ExpectedStatus(result.method)) =>
        /\ result.outcome = "fail"
        /\ \E i \in Printed : calls[i].text = Response.data

(* C3: every run of a test method that does not pass ends in a             *)
(* test-assertion failure, never in another kind of error.                 *)
C3_OnlyAssertionFailures ==
    (phase = "done" /\ result.outcome # "pass") =>
        (result.outcome = "fail" /\ result.exc = "AssertionError")

\* the first entry of attributes_to_check whose name the data lacks (0: none)
FirstMissing(entries, d) ==
    IF \E i \in DOMAIN entries : entries[i].name \notin DOMAIN d
    THEN CHOOSE i \in DOMAIN entries :
            /\ entries[i].name \notin DOMAIN d
            /\ \A j \in 1..(i - 1) : entries[j].name \in DOMAIN d
    ELSE 0

\* what the response data must hold for an entry of attributes_to_check
Wanted(entry) ==
    IF entry.pair
    THEN (IF entry.fn = "lambda obj: obj.id" THEN object.row.id ELSE object.row.name)
    ELSE StrV(GetAttr(object.row, entry.name).s)

(* C3, amended: a run whose response status differs from the expected code *)
(* ends in a test-assertion failure; with the expected status a run may    *)
(* end in another error: test_create raises ObjectDoesNotExist when the id *)
(* of a 201 response matches no row, test_update raises ObjectDoesNotExist *)
(* when no row has the lookup_field value after a 200 response, and        *)
(* test_detail raises KeyError when the data of a 200 response lacks a key *)
(* of attributes_to_check and the entries before it matched.               *)
C3_AssertionFailureOrLookupError ==
    /\ (phase = "done" /\ Response.status_code # ExpectedStatus(result.method)) =>
          (result.outcome = "fail" /\ result.exc = "AssertionError")
    /\ (/\ Done("test_create") /\ Response.status_code = HTTP_201_CREATED
        /\ ~Response.data.isNone
        /\ ~\E r \in db : /\ "id" \in DOMAIN Response.data.d
                          /\ r.id.s = Response.data.d["id"].s) =>
          (result.outcome = "error" /\ result.exc = "ObjectDoesNotExist")
    /\ (Done("test_update") /\ Response.status_code = HTTP_200_OK /\ Found = {}) =>
          (result.outcome = "error" /\ result.exc = "ObjectDoesNotExist")
    /\ (/\ Done("test_detail") /\ Response.status_code = HTTP_200_OK
        /\ ~Response.data.isNone
        /\ LET k == FirstMissing(attrs.attributes_to_check, Response.data.d)
           IN  /\ k # 0
               /\ \A j \in 1..(k - 1) :
                     Response.data.d[attrs.attributes_to_check[j].name]
                        = Wanted(attrs.attributes_to_check[j])) =>
          (result.outcome = "error" /\ result.exc = "KeyError")

C3_Witness ==
    /\ Done("test_create") /\ Response.status_code = HTTP_201_CREATED
    /\ result.outcome = "error" /\ result.exc = "ObjectDoesNotExist"

(* C4: test_destroy sends exactly one DELETE request, to the destroy route *)
(* built from the main object's lookup_field value; it passes only if the  *)
(* response status is 204 and afterwards no row has that lookup_field      *)
(* value; when the row is still there after a 204 response the test does   *)
(* not pass, and fails its assertion when the lookup finds just that row.  *)
C4_DestroyChecksRowIsGone ==
    Done("test_destroy") =>
        /\ Cardinality(Requests) = 1
        /\ Request.op = "client.delete"
        /\ Request.path.view =
              (IF "destroy_name" \in DOMAIN attrs THEN attrs.destroy_name
               ELSE attrs.base_name \o attrs.DETAIL_SUFFIX)
        /\ Request.path.arg = GetAttr(object.row, attrs.lookup_field).s
        /\ result.outcome = "pass" =>
              (Response.status_code = HTTP_204_NO_CONTENT /\ Found = {})
        /\ (Response.status_code = HTTP_204_NO_CONTENT /\ Found # {}) =>
              /\ result.outcome # "pass"
              /\ Cardinality(Found) = 1 => result.outcome = "fail"

C4_Witness ==
    /\ Done("test_destroy") /\ result.outcome = "pass"
    /\ object.row \notin db

\* the data test_create is to send: the argument, or get_create_data() when it is None
CreateData == IF result.args.data.isNone THEN attrs.create_data ELSE result.args.data

\* the row test_create returned is the row whose id the response names
CreatedRowReturned ==
    /\ Len(result.returned) = 2
    /\ result.returned[1] = Response
    /\ result.returned[2] \in db
    /\ "id" \in DOMAIN Response.data.d
    /\ result.returned[2].id.s = Response.data.d["id"].s

\* the database is queried only after the request, and only when the status is 201
QueriedAfterStatus ==
    \A q \in Queries :
        /\ Response.status_code = HTTP_201_CREATED
        /\ \A i \in Requests : i < q

(* C5: test_create posts the given data (or get_create_data() when data is *)
(* None), passes only if the status is 201 and a row whose id is the 'id'  *)
(* of the response data exists, queries the database only after the status *)
(* assertion passed, and returns that row.                                 *)
C5_CreatePostsTheData ==
    Done("test_create") =>
        /\ Request.op = "client.post"
        /\ Request.data = CreateData
        /\ QueriedAfterStatus
        /\ result.outcome = "pass" =>
              (Response.status_code = HTTP_201_CREATED /\ CreatedRowReturned)

(* C5, amended: test_create posts the given data (or get_create_data()     *)
(* when data is None), and an empty dictionary in its place when that is   *)
(* None or empty; the rest as claimed.                                     *)
C5_CreatePostsTheDataOrEmpty ==
    Done("test_create") =>
        /\ Cardinality(Requests) = 1
        /\ Request.op = "client.post"
        /\ Request.data =
              (IF CreateData.isNone \/ DOMAIN CreateData.d = {} THEN Dict(EmptyMap)
               ELSE CreateData)
        /\ QueriedAfterStatus
        /\ result.outcome = "pass" =>
              (Response.status_code = HTTP_201_CREATED /\ CreatedRowReturned)

C5_Witness ==
    /\ Done("test_create") /\ result.outcome = "pass"
    /\ result.args.data.isNone /\ attrs.create_data.isNone
    /\ Queries # {}

(* C6: the extra keyword arguments given to a test method are passed to    *)
(* the client call it makes: put() or patch() for test_update, get(),      *)
(* post() and delete() for the others.                                     *)
C6_KwargsReachTheClient ==
    phase = "done" => Request.kwargs = result.args.kwargs

\* the call of _update_check_db a finished test_update made, if it got that far
DbChecks == {i \in DOMAIN calls : calls[i].op = "_update_check_db"}

(* C7: get_update_results(data) returns update_results when it is set and  *)
(* data when it is left at None: test_update called with results=None on a *)
(* class that sets no update_results hands the request data to             *)
(* _update_check_db as the expected results.                               *)
C7_UpdateResultsDefaultToData ==
    (Done("test_update") /\ result.args.results.isNone) =>
        \A i \in DbChecks :
            calls[i].results =
                (IF attrs.update_results.isNone THEN calls[i].data
                 ELSE attrs.update_results)

\* the calls setUp makes, by position in `calls`
At(op) == {i \in DOMAIN calls : calls[i].op = op}
AuthCalls == At("user_factory.create") \cup At("Token.objects.get")
             \cup At("client.credentials") \cup At("client.login")

====
